---- MODULE Spec2Model ----
(***************************************************************************)
(* A model of the CWA weather proxy (src/server.js): an Express app with   *)
(* four GET routes, an error-handling middleware and a 404 handler.  The   *)
(* only handler with more than one step is getWeatherByCity, which is      *)
(* suspended once, at the await of the upstream call.                      *)
(*                                                                         *)
(* JavaScript values are modelled as follows.                              *)
(*   - a string is a sequence of tokens, "" is << >> and + is \o; the      *)
(*     Chinese texts of the source are written as one ASCII token each;    *)
(*   - a value that may be undefined is a sequence of length 0 or 1;       *)
(*   - an array is a sequence, a[0] is the first entry, or undefined when  *)
(*     the array is empty;                                                 *)
(*   - reading a property of undefined or null throws a TypeError.         *)
(***************************************************************************)
EXTENDS Naturals, Sequences, FiniteSets, TLC

\* ------------------------------------------------------------ bounds
NumReqs == 2
MaxElems == 2
MaxPeriods == 2

Reqs == 1..NumReqs

\* ------------------------------------------------------------ JS values
Undefined == << >>
Defined(x) == << x >>
IsUndefined(m) == Len(m) = 0
EmptyString == << >>
Truthy(m) == Len(m) = 1 /\ Len(m[1]) > 0

DigitStr(n) == << "0", "1", "2", "3", "4", "5", "6", "7", "8", "9" >>[n + 1]

\* ------------------------------------------------------------ configuration
CityNames ==
  << "Taipei", "NewTaipei", "Taoyuan", "Taichung", "Tainan", "Kaohsiung",
     "Keelung", "HsinchuCity", "HsinchuCounty", "Miaoli", "Changhua", "Nantou",
     "Yunlin", "ChiayiCity", "ChiayiCounty", "Pingtung", "Yilan", "Hualien",
     "Taitung", "Penghu", "Kinmen", "Lienchiang" >>

\* Each entry is a string of one token.
AVAILABLE_CITIES == [ i \in 1..Len(CityNames) |-> << CityNames[i] >> ]

\* process.env.CWA_API_KEY: unset, set to the empty string, or set
ApiKeys == { Undefined, Defined(EmptyString), Defined(<< "KEY" >>) }

\* ------------------------------------------------------------ upstream payloads
KnownCodes == { "Wx", "PoP", "MinT", "MaxT", "CI", "WS" }
Codes == KnownCodes \cup { "XX" }

\* Period i of element e carries texts no other period carries, so that a
\* record built from the wrong element or the wrong period is told apart.
PeriodAt(e, i, hasParameter) ==
  [ startTime |-> << "S", DigitStr(e), DigitStr(i) >>,
    endTime   |-> << "E", DigitStr(e), DigitStr(i) >>,
    parameter |-> IF hasParameter
                    THEN Defined([ parameterName |-> << DigitStr(e), DigitStr(i) >> ])
                    ELSE Undefined ]

\* The shape of a time series: undefined, or one flag per period telling
\* whether the period has a parameter; at most one period of a series has
\* none (the first such period is where the code stops).
TimeShapes(maxP) ==
  { Undefined } \cup
  { Defined([ i \in 1..n |-> i # miss ]) : n \in 0..maxP, miss \in 0..maxP }

ElemShapes(codes, maxP) == [ elementName : codes, time : TimeShapes(maxP) ]

MkElement(e, sh) ==
  [ elementName |-> sh.elementName,
    time |-> IF IsUndefined(sh.time)
               THEN Undefined
               ELSE Defined([ i \in 1..Len(sh.time[1]) |->
                                PeriodAt(e, i, sh.time[1][i]) ]) ]

MkCollection(shapes) == [ e \in 1..Len(shapes) |-> MkElement(e, shapes[e]) ]

MkLocation(name, weatherElement) ==
  [ locationName |-> name, weatherElement |-> weatherElement ]

DatasetDescription == << "36h-forecast" >>

\* response.data of a 2xx reply
MkData(records) == [ records |-> records ]
MkRecords(description, location) ==
  [ datasetDescription |-> description, location |-> location ]

\* ------------------------------------------------------------ texts
ParamErrorText == << "param-error" >>
ParamErrorMessage == << "please-provide-city-name" >>
ConfigErrorText == << "server-config-error" >>
ConfigErrorMessage == << "please-set-CWA_API_KEY-in-.env" >>
NoDataText == << "no-data" >>
NotFoundMessage(cityName) ==
  << "cannot-get " >> \o cityName \o << " weather-data,check-city-name" >>
UpstreamErrorText == << "CWA-API-error" >>
UpstreamDefaultMessage == << "cannot-get-weather-data" >>
ServerErrorText == << "server-error" >>
GenericMessage == << "cannot-get-weather-data,try-later" >>
TypeErrorMessage == << "TypeError:cannot-read-properties" >>
RouteNotFoundText == << "route-not-found" >>
Percent == << "%" >>
DegreeC == << "degC" >>

\* ------------------------------------------------------------ outcomes
Response(status, body) == [ status |-> status, body |-> body ]
NoResponse == Response(0, [ none |-> TRUE ])
Returned(res) == [ threw |-> FALSE, res |-> res ]
Threw == [ threw |-> TRUE, res |-> NoResponse ]

\* ------------------------------------------------------------ normalizer
NewForecast(first, i) ==
  [ startTime |-> first.time[1][i].startTime,
    endTime   |-> first.time[1][i].endTime,
    weather   |-> EmptyString,
    rain      |-> EmptyString,
    minTemp   |-> EmptyString,
    maxTemp   |-> EmptyString,
    comfort   |-> EmptyString,
    windSpeed |-> EmptyString ]

\* the switch with the targets of MinT and MaxT exchanged
SwitchElementNameSwapped(forecast, elementName, value) ==
  CASE elementName = "Wx"   -> [ forecast EXCEPT !.weather = value.parameterName ]
    [] elementName = "PoP"  -> [ forecast EXCEPT !.rain = value.parameterName \o Percent ]
    [] elementName = "MinT" -> [ forecast EXCEPT !.maxTemp = value.parameterName \o DegreeC ]
    [] elementName = "MaxT" -> [ forecast EXCEPT !.minTemp = value.parameterName \o DegreeC ]
    [] elementName = "CI"   -> [ forecast EXCEPT !.comfort = value.parameterName ]
    [] elementName = "WS"   -> [ forecast EXCEPT !.windSpeed = value.parameterName ]
    [] OTHER                -> forecast

SwitchElementName(forecast, elementName, value) ==
  CASE elementName = "Wx"   -> [ forecast EXCEPT !.weather = value.parameterName ]
    [] elementName = "PoP"  -> [ forecast EXCEPT !.rain = value.parameterName \o Percent ]
    [] elementName = "MinT" -> [ forecast EXCEPT !.minTemp = value.parameterName \o DegreeC ]
    [] elementName = "MaxT" -> [ forecast EXCEPT !.maxTemp = value.parameterName \o DegreeC ]
    [] elementName = "CI"   -> [ forecast EXCEPT !.comfort = value.parameterName ]
    [] elementName = "WS"   -> [ forecast EXCEPT !.windSpeed = value.parameterName ]
    [] OTHER                -> forecast

\* The callback of weatherElements.forEach for period i (1-based here).
\* element.time[i] of a missing or too short series is a read of undefined;
\* so is value.parameterName of a missing parameter, which only the six
\* cases of the switch read.
ElementCallback(acc, element, i) ==
  IF IsUndefined(element.time) \/ i > Len(element.time[1])
    THEN [ acc EXCEPT !.threw = TRUE ]
    ELSE LET value == element.time[1][i].parameter
         IN  IF element.elementName \notin KnownCodes
               THEN acc
               ELSE IF IsUndefined(value)
                      THEN [ acc EXCEPT !.threw = TRUE ]
                      ELSE [ acc EXCEPT !.forecast =
                               SwitchElementName(@, element.elementName, value[1]) ]

RECURSIVE ForEachElement(_, _, _, _)
ForEachElement(weatherElements, k, i, acc) ==
  IF k > Len(weatherElements) \/ acc.threw
    THEN acc
    ELSE ForEachElement(weatherElements, k + 1, i,
                        ElementCallback(acc, weatherElements[k], i))

\* unshift in place of push
PushForecastInFront(forecasts, forecast) == << forecast >> \o forecasts

PushForecast(forecasts, forecast) == Append(forecasts, forecast)

RECURSIVE ForecastLoop(_, _, _, _)
ForecastLoop(weatherElements, i, timeCount, forecasts) ==
  IF i > timeCount
    THEN [ threw |-> FALSE, forecasts |-> forecasts ]
    ELSE LET r == ForEachElement(weatherElements, 1, i,
                    [ threw |-> FALSE, forecast |-> NewForecast(weatherElements[1], i) ])
         IN  IF r.threw
               THEN [ threw |-> TRUE, forecasts |-> forecasts ]
               ELSE ForecastLoop(weatherElements, i + 1, timeCount,
                                 PushForecast(forecasts, r.forecast))

\* weatherElements[0].time.length throws when weatherElement is undefined,
\* when it is empty, and when the first element has no time series.
Normalize(locationData) ==
  IF IsUndefined(locationData.weatherElement)
    THEN [ threw |-> TRUE, forecasts |-> << >> ]
    ELSE LET weatherElements == locationData.weatherElement[1]
         IN  IF Len(weatherElements) = 0
               THEN [ threw |-> TRUE, forecasts |-> << >> ]
               ELSE IF IsUndefined(weatherElements[1].time)
                      THEN [ threw |-> TRUE, forecasts |-> << >> ]
                      ELSE ForecastLoop(weatherElements, 1,
                                        Len(weatherElements[1].time[1]), << >>)

\* ------------------------------------------------------------ getWeatherByCity
\* the key check as CWA_API_KEY === undefined, which lets an empty key pass
BeforeAwaitUnsetKeyOnly(cityName, key) ==
  IF ~Truthy(Defined(cityName))
    THEN Returned(Response(400, [ error |-> ParamErrorText, message |-> ParamErrorMessage ]))
    ELSE IF IsUndefined(key)
           THEN Returned(Response(500, [ error |-> ConfigErrorText, message |-> ConfigErrorMessage ]))
           ELSE [ threw |-> FALSE, res |-> NoResponse ]

\* The part before the await: "400", "500" or "call".
BeforeAwait(cityName, key) ==
  IF ~Truthy(Defined(cityName))
    THEN Returned(Response(400, [ error |-> ParamErrorText, message |-> ParamErrorMessage ]))
    ELSE IF ~Truthy(key)
           THEN Returned(Response(500, [ error |-> ConfigErrorText, message |-> ConfigErrorMessage ]))
           ELSE [ threw |-> FALSE, res |-> NoResponse ]

IssuesCall(cityName, key) == BeforeAwait(cityName, key).res.status = 0

CallParams(cityName, key) == [ Authorization |-> key[1], locationName |-> cityName ]

\* The rest of the try block, after the await returned a 2xx reply.
TryAfterAwait(cityName, data) ==
  IF IsUndefined(data.records)
    THEN Threw
    ELSE LET records == data.records[1]
         IN  IF IsUndefined(records.location)
               THEN Threw
               ELSE LET location == records.location[1]
                    IN  IF Len(location) = 0
                          THEN Returned(Response(404,
                                 [ error |-> NoDataText,
                                   message |-> NotFoundMessage(cityName) ]))
                          ELSE LET locationData == location[1]
                                   n == Normalize(locationData)
                               IN  IF n.threw
                                     THEN Threw
                                     ELSE Returned(Response(200,
                                            [ success |-> TRUE,
                                              data |-> [ city |-> locationData.locationName,
                                                         updateTimeDescription |-> records.datasetDescription,
                                                         forecasts |-> n.forecasts ] ]))

\* The catch block.  error.response is undefined for everything but an
\* axios error that carries the upstream's reply.
Catch(error) ==
  IF ~IsUndefined(error.response)
    THEN LET response == error.response[1]
         IN  IF response.data.t = "null"
               THEN Threw
               ELSE Returned(Response(response.status,
                      [ error |-> UpstreamErrorText,
                        message |-> IF Truthy(response.data.message)
                                      THEN response.data.message[1]
                                      ELSE UpstreamDefaultMessage,
                        details |-> response.data ]))
    ELSE Returned(Response(500, [ error |-> ServerErrorText, message |-> GenericMessage ]))

NoAxiosError == [ response |-> Undefined ]

\* Everything from the settling of the await to the end of the handler.
Resume(cityName, rep) ==
  IF rep.kind = "ok"
    THEN LET t == TryAfterAwait(cityName, rep.data)
         IN  IF t.threw THEN Catch(NoAxiosError) ELSE t
    ELSE Catch(rep.error)

\* ------------------------------------------------------------ requests
RequestCities == { << "Taipei" >>, << "Atlantis" >> }
Methods == { "GET", "POST" }
Paths ==
  { << >>, << "api", "health" >>, << "api", "cities" >>, << "api", "weather" >>,
    << "api", "doesnotexist" >> }
  \cup { << "api", "weather", c[1] >> : c \in RequestCities }
Requests == [ method : Methods, path : Paths ]
NoRequest == [ method |-> "", path |-> << >> ]

\* The route table, in registration order; "notfound" is the last app.use.
Route(rq) ==
  IF rq.method # "GET" THEN "notfound"
  ELSE IF rq.path = << >> THEN "root"
  ELSE IF rq.path = << "api", "health" >> THEN "health"
  ELSE IF rq.path = << "api", "cities" >> THEN "cities"
  ELSE IF Len(rq.path) = 3 /\ rq.path[1] = "api" /\ rq.path[2] = "weather" THEN "weather"
  ELSE "notfound"

\* req.params.city of a request the weather route matched
ParamsCity(rq) == << rq.path[3] >>

Timestamps == { << "T1" >>, << "T2" >> }

\* ------------------------------------------------------------ upstream replies
ErrorBodies ==
  { [ t |-> "null",   message |-> Undefined ],
    [ t |-> "string", message |-> Undefined ],
    [ t |-> "object", message |-> Undefined ],
    [ t |-> "object", message |-> Defined(EmptyString) ],
    [ t |-> "object", message |-> Defined(<< "Unauthorized" >>) ] }
UpstreamStatuses == { 401, 503 }

OkReply(data) == [ kind |-> "ok", data |-> data, error |-> NoAxiosError ]
HttpErrorReply(status, body) ==
  [ kind |-> "error", data |-> MkData(Undefined),
    error |-> [ response |-> Defined([ status |-> status, data |-> body ]) ] ]
NetworkErrorReply == [ kind |-> "error", data |-> MkData(Undefined), error |-> NoAxiosError ]
NoReply == [ kind |-> "none", data |-> MkData(Undefined), error |-> NoAxiosError ]

LocationReply(name, weatherElement) ==
  OkReply(MkData(Defined(MkRecords(Defined(DatasetDescription),
            Defined(<< MkLocation(name, weatherElement) >>)))))

\* 2xx replies without a usable location entry
DegenerateReplies ==
  { OkReply(MkData(Undefined)),
    OkReply(MkData(Defined(MkRecords(Defined(DatasetDescription), Undefined)))),
    OkReply(MkData(Defined(MkRecords(Defined(DatasetDescription), Defined(<< >>))))),
    OkReply(MkData(Defined(MkRecords(Undefined, Defined(<< >>))))),
    LocationReply(<< "Taipei" >>, Undefined) }

FailureReplies ==
  { HttpErrorReply(st, b) : st \in UpstreamStatuses, b \in ErrorBodies }
  \cup { NetworkErrorReply }

ForecastReply(shapes) == LocationReply(<< "Taipei" >>, Defined(MkCollection(shapes)))

\* A few forecast payloads, for the runs with several requests.
SampleShapes ==
  { << >>,
    << [ elementName |-> "PoP", time |-> Defined(<< TRUE >>) ] >>,
    << [ elementName |-> "Wx", time |-> Defined(<< TRUE, TRUE >>) ],
       [ elementName |-> "MinT", time |-> Defined(<< TRUE >>) ] >> }
SampleReplies == { ForecastReply(sh) : sh \in SampleShapes }

Replies == DegenerateReplies \cup FailureReplies \cup SampleReplies

\* ------------------------------------------------------------ state
VARIABLES
  apiKey,     \* CWA_API_KEY, read once at startup
  cities,     \* the array AVAILABLE_CITIES is bound to
  alive,      \* the Node process is running
  pc,         \* where each request is
  req,        \* the request, once it arrived
  sent,       \* the upstream calls made for the request, in order
  reply,      \* what the upstream call settled with
  resp        \* the response sent to the client

vars == << apiKey, cities, alive, pc, req, sent, reply, resp >>

Init ==
  /\ apiKey \in ApiKeys
  /\ cities = AVAILABLE_CITIES
  /\ alive = TRUE
  /\ pc = [ r \in Reqs |-> "idle" ]
  /\ req = [ r \in Reqs |-> NoRequest ]
  /\ sent = [ r \in Reqs |-> << >> ]
  /\ reply = [ r \in Reqs |-> NoReply ]
  /\ resp = [ r \in Reqs |-> NoResponse ]

Arrives(r, rq, route) ==
  /\ alive
  /\ pc[r] = "idle"
  /\ Route(rq) = route
  /\ req' = [ req EXCEPT ![r] = rq ]

Responds(r, res) ==
  /\ resp' = [ resp EXCEPT ![r] = res ]
  /\ pc' = [ pc EXCEPT ![r] = "done" ]

GetRoot(r, rq) ==
  /\ Arrives(r, rq, "root")
  /\ Responds(r, Response(200,
       [ message |-> << "welcome" >>,
         endpoints |-> [ weatherByCity |-> << "/api/weather/:city" >>,
                         health |-> << "/api/health" >>,
                         availableCities |-> << "/api/cities" >> ],
         usage |-> [ description |-> << "use-path-parameter" >>,
                     examples |-> << << "/api/weather/Taichung" >>,
                                     << "/api/weather/Kaohsiung" >>,
                                     << "/api/weather/Taipei" >> >> ] ]))
  /\ UNCHANGED << apiKey, cities, alive, sent, reply >>

GetHealth(r, rq, now) ==
  /\ Arrives(r, rq, "health")
  /\ Responds(r, Response(200, [ status |-> << "OK" >>, timestamp |-> now ]))
  /\ UNCHANGED << apiKey, cities, alive, sent, reply >>

\* the handler reversing the array in place before it sends it
GetCitiesReversing(r, rq) ==
  /\ Arrives(r, rq, "cities")
  /\ cities' = [ i \in 1..Len(cities) |-> cities[Len(cities) + 1 - i] ]
  /\ Responds(r, Response(200, [ success |-> TRUE, data |-> cities' ]))
  /\ UNCHANGED << apiKey, alive, sent, reply >>

GetCities(r, rq) ==
  /\ Arrives(r, rq, "cities")
  /\ Responds(r, Response(200, [ success |-> TRUE, data |-> cities ]))
  /\ UNCHANGED << apiKey, cities, alive, sent, reply >>

NotFoundHandler(r, rq) ==
  /\ Arrives(r, rq, "notfound")
  /\ Responds(r, Response(404, [ error |-> RouteNotFoundText ]))
  /\ UNCHANGED << apiKey, cities, alive, sent, reply >>

\* getWeatherByCity up to the await: a response, or the upstream call.
GetWeatherByCity(r, rq) ==
  /\ Arrives(r, rq, "weather")
  /\ LET cityName == ParamsCity(rq)
     IN  IF IssuesCall(cityName, apiKey)
           THEN /\ sent' = [ sent EXCEPT ![r] = Append(@, CallParams(cityName, apiKey)) ]
                /\ pc' = [ pc EXCEPT ![r] = "awaiting" ]
                /\ UNCHANGED resp
           ELSE /\ Responds(r, BeforeAwait(cityName, apiKey).res)
                /\ UNCHANGED sent
  /\ UNCHANGED << apiKey, cities, alive, reply >>

\* cityName as one module-level variable, which the latest weather request
\* (here: the one with the highest number) has overwritten
CityNameShared(r) ==
  LET W == { q \in Reqs : pc[q] # "idle" /\ Route(req[q]) = "weather" }
  IN  ParamsCity(req[CHOOSE q \in W : \A p \in W : p <= q])

\* const cityName of the suspended call of getWeatherByCity for r
CityNameOf(r) == ParamsCity(req[r])

\* the handler calling the upstream once more when the first call failed
AwaitSettlesRetrying(r, rep) ==
  /\ alive
  /\ pc[r] = "awaiting"
  /\ reply' = [ reply EXCEPT ![r] = rep ]
  /\ IF rep.kind = "error" /\ Len(sent[r]) = 1
       THEN /\ sent' = [ sent EXCEPT ![r] = Append(@, @[1]) ]
            /\ UNCHANGED << pc, resp >>
       ELSE /\ UNCHANGED sent
            /\ LET out == Resume(ParamsCity(req[r]), rep)
               IN  IF out.threw
                     THEN /\ pc' = [ pc EXCEPT ![r] = "rejected" ]
                          /\ UNCHANGED resp
                     ELSE Responds(r, out.res)
  /\ UNCHANGED << apiKey, cities, alive, req >>

\* The await settles with rep and the handler runs to its end: a response,
\* or an exception thrown in the catch block, which rejects the promise the
\* async handler returned.
AwaitSettles(r, rep) ==
  /\ alive
  /\ pc[r] = "awaiting"
  /\ reply' = [ reply EXCEPT ![r] = rep ]
  /\ LET out == Resume(CityNameOf(r), rep)
     IN  IF out.threw
           THEN /\ pc' = [ pc EXCEPT ![r] = "rejected" ]
                /\ UNCHANGED resp
           ELSE Responds(r, out.res)
  /\ UNCHANGED << apiKey, cities, alive, req, sent >>

\* A router that awaits its handlers (Express 5) passes the rejection to the
\* error-handling middleware.
ErrorMiddleware(r) ==
  /\ alive
  /\ pc[r] = "rejected"
  /\ Responds(r, Response(500, [ error |-> ServerErrorText, message |-> TypeErrorMessage ]))
  /\ UNCHANGED << apiKey, cities, alive, req, sent, reply >>

\* A router that drops the promise (Express 4) leaves the rejection
\* unhandled: no response is ever sent, and the process goes on or exits,
\* as the runtime's unhandled-rejection policy has it.
UnhandledRejection(r) ==
  /\ alive
  /\ pc[r] = "rejected"
  /\ pc' = [ pc EXCEPT ![r] = "unanswered" ]
  /\ alive' \in BOOLEAN
  /\ UNCHANGED << apiKey, cities, req, sent, reply, resp >>

Handle(r, replies) ==
  \/ \E rq \in Requests : GetRoot(r, rq)
  \/ \E rq \in Requests, now \in Timestamps : GetHealth(r, rq, now)
  \/ \E rq \in Requests : GetCities(r, rq)
  \/ \E rq \in Requests : NotFoundHandler(r, rq)
  \/ \E rq \in Requests : GetWeatherByCity(r, rq)
  \/ \E rep \in replies : AwaitSettles(r, rep)
  \/ ErrorMiddleware(r)
  \/ UnhandledRejection(r)

Next == \E r \in Reqs : Handle(r, Replies)

Spec == Init /\ [][Next]_vars

\* One weather request, over every forecast payload within the bounds: at
\* most MaxElems elements of at most MaxPeriods periods each.
NormalizerRequests == { [ method |-> "GET", path |-> << "api", "weather", "Taipei" >> ] }

NextNormalizer ==
  \/ \E rq \in NormalizerRequests : GetWeatherByCity(1, rq)
  \/ \E rep \in DegenerateReplies : AwaitSettles(1, rep)
  \/ /\ pc[1] = "awaiting"
     /\ \E n \in 0..MaxElems :
          \E sh \in [1..n -> ElemShapes(Codes, MaxPeriods)] : AwaitSettles(1, ForecastReply(sh))

SpecNormalizer == Init /\ [][NextNormalizer]_vars

\* ------------------------------------------------------------ vocabulary of the properties
Settled(r) == pc[r] \in { "done", "rejected", "unanswered" }
OnWeatherRoute(r) == pc[r] # "idle" /\ Route(req[r]) = "weather"
\* the request went through the upstream call and the call settled
WeatherSettled(r) == OnWeatherRoute(r) /\ Settled(r) /\ reply[r].kind # "none"
WeatherSuccess(r) == WeatherSettled(r) /\ pc[r] = "done" /\ resp[r].status = 200

HasRecords(rep) == rep.kind = "ok" /\ ~IsUndefined(rep.data.records)
HasLocationArray(rep) == HasRecords(rep) /\ ~IsUndefined(rep.data.records[1].location)
HasLocationEntry(rep) == HasLocationArray(rep) /\ Len(rep.data.records[1].location[1]) > 0
LocationEntry(rep) == rep.data.records[1].location[1][1]
HasElements(rep) == HasLocationEntry(rep) /\ ~IsUndefined(LocationEntry(rep).weatherElement)
ElementsOf(rep) == LocationEntry(rep).weatherElement[1]
FirstSeries(rep) == ElementsOf(rep)[1].time[1]
ForecastsOf(r) == resp[r].body.data.forecasts

IsConfigError(res) ==
  res.status = 500 /\ res.body = [ error |-> ConfigErrorText, message |-> ConfigErrorMessage ]
IsGenericError(res) ==
  res.status = 500 /\ res.body = [ error |-> ServerErrorText, message |-> GenericMessage ]

\* ------------------------------------------------------------ C1
\* C1: the forecast normalization never throws: every request whose upstream
\* reply carries a location entry, malformed or not, ends with the success
\* envelope and not with a failure response.
C1_NormalizationNeverThrows ==
  \A r \in Reqs :
    (WeatherSettled(r) /\ HasLocationEntry(reply[r])) => WeatherSuccess(r)

\* ------------------------------------------------------------ C2
\* C2: every failure of a weather request is caught inside the handler and
\* answered with a JSON error; no exception leaves getWeatherByCity and no
\* settled request is without a response.
C2_NoFailureEscapesHandler ==
  \A r \in Reqs : OnWeatherRoute(r) => pc[r] \in { "awaiting", "done" }

\* ------------------------------------------------------------ C3
\* C3: in every successful weather response, forecasts has as many records
\* as the first upstream element has periods, and record i carries the
\* startTime and endTime of that element's i-th period.
C3_ForecastsFollowFirstElement ==
  \A r \in Reqs :
    WeatherSuccess(r) =>
      /\ HasElements(reply[r])
      /\ Len(ForecastsOf(r)) = Len(FirstSeries(reply[r]))
      /\ \A i \in 1..Len(ForecastsOf(r)) :
           /\ ForecastsOf(r)[i].startTime = FirstSeries(reply[r])[i].startTime
           /\ ForecastsOf(r)[i].endTime = FirstSeries(reply[r])[i].endTime

C3_Witness ==
  \E r \in Reqs :
    /\ WeatherSuccess(r)
    /\ Len(ElementsOf(reply[r])) = 2
    /\ Len(ForecastsOf(r)) = 2
    /\ ForecastsOf(r)[1].startTime # ForecastsOf(r)[2].startTime

\* ------------------------------------------------------------ C4
FieldOf(code) ==
  CASE code = "Wx" -> "weather" [] code = "PoP" -> "rain" [] code = "MinT" -> "minTemp"
    [] code = "MaxT" -> "maxTemp" [] code = "CI" -> "comfort" [] code = "WS" -> "windSpeed"
SuffixOf(code) ==
  CASE code = "PoP" -> << "%" >> [] code \in { "MinT", "MaxT" } -> << "degC" >>
    [] OTHER -> << >>
IndicesOf(elements, code) == { k \in 1..Len(elements) : elements[k].elementName = code }
LastIndexOf(elements, code) ==
  CHOOSE k \in IndicesOf(elements, code) : \A j \in IndicesOf(elements, code) : j <= k
ExpectedField(elements, code, i) ==
  IF IndicesOf(elements, code) = { }
    THEN << >>
    ELSE elements[LastIndexOf(elements, code)].time[1][i].parameter[1].parameterName
           \o SuffixOf(code)
\* nothing the code reads is missing: every series reaches the first one's
\* length, and the periods of elements with a known code have a parameter
Readable(elements) ==
  /\ Len(elements) > 0
  /\ \A k \in 1..Len(elements) : ~IsUndefined(elements[k].time)
  /\ \A k \in 1..Len(elements) :
       /\ Len(elements[k].time[1]) >= Len(elements[1].time[1])
       /\ elements[k].elementName \in KnownCodes =>
            \A i \in 1..Len(elements[1].time[1]) :
              ~IsUndefined(elements[k].time[1][i].parameter)

\* C4: in every successful weather response, for every period i and every
\* known code, the code's field is the empty string when no element has
\* the code, and else the i-th value of the (last) element with the code,
\* with "%" appended for PoP and the degree suffix for MinT and MaxT; hence
\* an element with another code changes no field.  Such an element raises
\* no error either: a payload whose known-code elements are complete is
\* answered with success whatever its other elements hold.
C4_FieldsFollowMapping ==
  \A r \in Reqs :
    /\ WeatherSuccess(r) =>
         \A i \in 1..Len(ForecastsOf(r)) : \A code \in KnownCodes :
           ForecastsOf(r)[i][FieldOf(code)] = ExpectedField(ElementsOf(reply[r]), code, i)
    /\ (WeatherSettled(r) /\ HasElements(reply[r]) /\ Readable(ElementsOf(reply[r])))
         => WeatherSuccess(r)

C4_Witness ==
  \E r \in Reqs :
    /\ WeatherSuccess(r)
    /\ Len(ForecastsOf(r)) = 2
    /\ Len(ElementsOf(reply[r])) = 2
    /\ ElementsOf(reply[r])[1].elementName = "XX"
    /\ IsUndefined(ElementsOf(reply[r])[1].time[1][2].parameter)
    /\ ElementsOf(reply[r])[2].elementName = "MinT"
    /\ ForecastsOf(r)[2].minTemp = << "2", "2", "degC" >>
    /\ ForecastsOf(r)[2].maxTemp = << >>

\* ------------------------------------------------------------ C5
\* C5: without a configured CWA_API_KEY every weather request, whatever its
\* city, is answered at once with status 500 and the configuration message,
\* which is not the generic failure message.
C5_MissingKeyIsConfigError ==
  \A r \in Reqs :
    (OnWeatherRoute(r) /\ ~Truthy(apiKey)) =>
      /\ pc[r] = "done"
      /\ IsConfigError(resp[r])
      /\ ~IsGenericError(resp[r])
      /\ resp[r].body.message # GenericMessage

C5_Witness ==
  /\ apiKey = Defined(EmptyString)
  /\ \E r, q \in Reqs :
       /\ OnWeatherRoute(r) /\ ParamsCity(req[r]) = << "Taipei" >> /\ IsConfigError(resp[r])
       /\ OnWeatherRoute(q) /\ ParamsCity(req[q]) = << "Atlantis" >> /\ IsConfigError(resp[q])

\* ------------------------------------------------------------ C6
NoLocationEntry(rep) ==
  HasRecords(rep) /\ (~HasLocationArray(rep) \/ Len(rep.data.records[1].location[1]) = 0)

\* C6: a 2xx upstream reply whose location collection is empty or missing is
\* answered with 404 and a message naming the requested city, without data.
C6_NoLocationIs404 ==
  \A r \in Reqs :
    (WeatherSettled(r) /\ NoLocationEntry(reply[r])) =>
      /\ pc[r] = "done"
      /\ resp[r] = Response(404, [ error |-> NoDataText,
                                   message |-> NotFoundMessage(ParamsCity(req[r])) ])

\* ------------------------------------------------------------ C7
HasUpstreamResponse(rep) == rep.kind = "error" /\ ~IsUndefined(rep.error.response)
UpstreamResponse(rep) == rep.error.response[1]

\* C7: an upstream non-2xx reply is answered with the upstream's status, its
\* message (the default text when it has none) and its raw body; a failure
\* without an upstream response is answered with 500 and the generic message.
C7_UpstreamErrorPassThrough ==
  \A r \in Reqs :
    /\ (WeatherSettled(r) /\ HasUpstreamResponse(reply[r])) =>
         /\ pc[r] = "done"
         /\ resp[r].status = UpstreamResponse(reply[r]).status
         /\ resp[r].body.details = UpstreamResponse(reply[r]).data
         /\ Truthy(UpstreamResponse(reply[r]).data.message) =>
              resp[r].body.message = UpstreamResponse(reply[r]).data.message[1]
    /\ (WeatherSettled(r) /\ reply[r].kind = "error" /\ ~HasUpstreamResponse(reply[r])) =>
         (pc[r] = "done" /\ IsGenericError(resp[r]))

\* ------------------------------------------------------------ C8
\* C8: every response of GET /api/cities, whatever was requested before, is
\* success:true with the 22 names of AVAILABLE_CITIES in their order, and no
\* handler changes the array.
C8_CitiesListIsFixed ==
  /\ cities = AVAILABLE_CITIES
  /\ \A r \in Reqs :
       (pc[r] = "done" /\ Route(req[r]) = "cities") =>
         /\ resp[r].status = 200
         /\ resp[r].body.success = TRUE
         /\ resp[r].body.data = AVAILABLE_CITIES
         /\ Len(resp[r].body.data) = 22
         /\ resp[r].body.data[1] = << "Taipei" >>
         /\ resp[r].body.data[22] = << "Lienchiang" >>

C8_Witness ==
  \E r, q \in Reqs :
    /\ pc[r] = "done" /\ Route(req[r]) = "cities"
    /\ WeatherSettled(q) /\ pc[q] = "done"

\* ------------------------------------------------------------ C9
\* C9: a request makes at most one upstream call, makes it only on the
\* weather route with a city and a configured key, and never makes a second
\* one after a failure; a request answered 400 or with the configuration
\* error made none.
C9_AtMostOneUpstreamCall ==
  \A r \in Reqs :
    /\ Len(sent[r]) <= 1
    /\ Len(sent[r]) = 1 =>
         /\ OnWeatherRoute(r)
         /\ Truthy(apiKey)
         /\ Truthy(Defined(ParamsCity(req[r])))
         /\ sent[r][1] = [ Authorization |-> apiKey[1], locationName |-> ParamsCity(req[r]) ]
    /\ (OnWeatherRoute(r) /\ pc[r] = "done" /\ (resp[r].status = 400 \/ IsConfigError(resp[r])))
         => Len(sent[r]) = 0

C9_Witness ==
  /\ \E r \in Reqs :
       /\ WeatherSettled(r) /\ pc[r] = "done" /\ resp[r].status = 503 /\ Len(sent[r]) = 1
  /\ \E q \in Reqs :
       /\ WeatherSettled(q) /\ pc[q] = "done" /\ IsGenericError(resp[q]) /\ Len(sent[q]) = 1

\* ------------------------------------------------------------ C10
\* what getWeatherByCity answers a request for city whose call settled with rep
OwnOutcome(city, rep) ==
  IF rep.kind = "ok"
    THEN IF TryAfterAwait(city, rep.data).threw
           THEN Catch(NoAxiosError)
           ELSE TryAfterAwait(city, rep.data)
    ELSE Catch(rep.error)

\* C10: while the process runs, a request that has not been answered can
\* take its next step whatever the other requests are waiting for, and the
\* answer to a weather request is the one its own city and its own upstream
\* reply determine (the handler's, or the error middleware's when the handler
\* threw), whatever the other requests asked and received.
C10_RequestsAreIndependent ==
  \A r \in Reqs :
    /\ (alive /\ pc[r] \in { "idle", "awaiting", "rejected" }) => ENABLED Handle(r, Replies)
    /\ (OnWeatherRoute(r) /\ Len(sent[r]) = 1) =>
         sent[r][1].locationName = ParamsCity(req[r])
    /\ WeatherSettled(r) =>
         LET own == OwnOutcome(ParamsCity(req[r]), reply[r])
         IN  /\ pc[r] \in { "rejected", "unanswered" } => own.threw
             /\ pc[r] = "done" =>
                  resp[r] = IF own.threw
                              THEN Response(500, [ error |-> ServerErrorText,
                                                   message |-> TypeErrorMessage ])
                              ELSE own.res

C10_Witness ==
  \E r, q \in Reqs :
    /\ pc[q] = "awaiting" /\ ParamsCity(req[q]) = << "Atlantis" >>
    /\ WeatherSettled(r) /\ pc[r] = "done" /\ ParamsCity(req[r]) = << "Taipei" >>
    /\ resp[r].status = 404

====
